---- MODULE Spec2Model ----
(***************************************************************************)
(* Model of index.py, the Alexa "coffee maker" skill: lambda_handler       *)
(* routes one event to on_launch, on_intent or on_session_ended and the    *)
(* handlers assemble the reply with build_response.                        *)
(*                                                                         *)
(* Python values are represented as follows.                               *)
(*   dict          a record; a key is present iff it is in DOMAIN; {} is   *)
(*                 the empty function << >>                                *)
(*   str           a TLA+ string (Len, SubSeq and \o act on characters)    *)
(*   None          the record None                                         *)
(*   Optional[str] card_title and reprompt_text are None or Str(s): a      *)
(*                 string and None cannot be compared directly             *)
(*   int           an integer; the float n * SCOOPS_PER_CUP is the exact   *)
(*                 rational 5n/6 (see format_2g)                           *)
(* A call either returns a value or raises: Return(v) / Raise(e).          *)
(***************************************************************************)
EXTENDS Integers, Sequences, FiniteSets, TLC

VARIABLES event, outcome, log, memo

vars == <<event, outcome, log, memo>>

-----------------------------------------------------------------------------
(* Bounds of the model *)

MaxLen == 3      \* longest Cups slot value of specification Spec
MaxCups == 130   \* largest |cups| of specification SpecCups
HistLen == 1     \* longest Cups slot value of specification SpecHist

-----------------------------------------------------------------------------
(* Python values *)

None == [py |-> "None"]

Str(s) == [py |-> "str", value |-> s]

EmptyDict == << >>

Return(v) == [status |-> "returned", value |-> v]

Raise(e) == [status |-> "raised", exception |-> e]

\* truth value of an Optional[str]: None and '' are false
Truthy(v) == v # None /\ v # Str("")

Char(s, i) == SubSeq(s, i, i)

-----------------------------------------------------------------------------
(* int(str) and str(int) *)

DigitChars == <<"0", "1", "2", "3", "4", "5", "6", "7", "8", "9">>

Digits == {DigitChars[i] : i \in 1..10}

Whitespace == {" ", "\t", "\n", "\r"}

DigitValue(c) == CHOOSE d \in 0..9 : DigitChars[d + 1] = c

RECURSIVE lstrip(_)
lstrip(s) ==
    IF Len(s) > 0 /\ Char(s, 1) \in Whitespace
    THEN lstrip(SubSeq(s, 2, Len(s)))
    ELSE s

RECURSIVE rstrip(_)
rstrip(s) ==
    IF Len(s) > 0 /\ Char(s, Len(s)) \in Whitespace
    THEN rstrip(SubSeq(s, 1, Len(s) - 1))
    ELSE s

strip(s) == rstrip(lstrip(s))

RECURSIVE DigitsValue(_)
DigitsValue(s) ==
    IF Len(s) = 0 THEN 0
    ELSE 10 * DigitsValue(SubSeq(s, 1, Len(s) - 1)) + DigitValue(Char(s, Len(s)))

\* int(s) for a str s: surrounding whitespace is dropped, one sign is
\* allowed, at least one digit must follow and nothing else; anything
\* else raises ValueError
int(s) ==
    LET t == strip(s)
        signed == Len(t) > 0 /\ Char(t, 1) \in {"+", "-"}
        body == IF signed THEN SubSeq(t, 2, Len(t)) ELSE t
    IN  IF Len(body) = 0 \/ \E i \in 1..Len(body) : Char(body, i) \notin Digits
        THEN Raise("ValueError")
        ELSE Return(IF signed /\ Char(t, 1) = "-"
                    THEN 0 - DigitsValue(body)
                    ELSE DigitsValue(body))

RECURSIVE NatStr(_)
NatStr(n) ==
    IF n < 10 THEN DigitChars[n + 1]
    ELSE NatStr(n \div 10) \o DigitChars[(n % 10) + 1]

\* '{}'.format(n) for an int n
str(n) == IF n < 0 THEN "-" \o NatStr(0 - n) ELSE NatStr(n)

-----------------------------------------------------------------------------
(* '{:.2g}'.format(x) *)

SCOOPS_PER_CUP == <<5, 6>>   \* numerator and denominator of 5 / 6

RECURSIVE Pow10(_)
Pow10(k) == IF k <= 0 THEN 1 ELSE 10 * Pow10(k - 1)

\* decimal exponent of the positive rational a / b
RECURSIVE Exp10(_, _)
Exp10(a, b) ==
    IF a < b THEN Exp10(10 * a, b) - 1
    ELSE IF a >= 10 * b THEN Exp10(a, 10 * b) + 1
    ELSE 0

\* a / b cut to an integer instead of rounded
RoundHalfEven_m(a, b) == a \div b

\* a / b rounded to an integer, ties to even
RoundHalfEven(a, b) ==
    LET q == a \div b
        r == a % b
    IN  IF 2 * r > b \/ (2 * r = b /\ q % 2 = 1) THEN q + 1 ELSE q

RECURSIVE Zeros(_)
Zeros(k) == IF k <= 0 THEN "" ELSE "0" \o Zeros(k - 1)

\* '{:.2g}'.format(num / den), den > 0.  The code multiplies the int by the
\* double nearest to 5/6; the product is the double nearest to 5n/6 or its
\* neighbour, it is exact whenever 5n/6 is a double (every tie of the
\* rounding below is), and otherwise 5n/6 is at least 1/60 away from a tie,
\* so rounding the exact rational gives the digits the code prints.
\* %g with precision 2: two significant digits, ties to even; exponent
\* form when the decimal exponent is < -4 or >= 2; trailing zeros and a
\* trailing point are removed.
format_2g(num, den) ==
    IF num = 0 THEN "0"
    ELSE
    LET a == IF num < 0 THEN 0 - num ELSE num
        sign == IF num < 0 THEN "-" ELSE ""
        e0 == Exp10(a, den)
        m0 == IF e0 >= 1
              THEN RoundHalfEven(a, den * Pow10(e0 - 1))
              ELSE RoundHalfEven(a * Pow10(1 - e0), den)
        m == IF m0 = 100 THEN 10 ELSE m0
        e == IF m0 = 100 THEN e0 + 1 ELSE e0
        d1 == DigitChars[(m \div 10) + 1]
        d2 == IF m % 10 = 0 THEN "" ELSE DigitChars[(m % 10) + 1]
        ae == IF e < 0 THEN 0 - e ELSE e
    IN  IF e < 0 - 4 \/ e >= 2
        THEN sign \o d1 \o (IF d2 = "" THEN "" ELSE "." \o d2) \o "e"
                  \o (IF e < 0 THEN "-" ELSE "+")
                  \o (IF ae < 10 THEN "0" ELSE "") \o NatStr(ae)
        ELSE IF e = 1 THEN sign \o NatStr(m)
        ELSE IF e = 0 THEN sign \o d1 \o (IF d2 = "" THEN "" ELSE "." \o d2)
        ELSE sign \o "0." \o Zeros(ae - 1) \o d1 \o d2

-----------------------------------------------------------------------------
(* The response builders *)

build_output_speech(text) ==
    [type |-> "PlainText", text |-> text]

\* the card repeats its title as content
build_card_m(title, content) ==
    IF ~Truthy(title) THEN None
    ELSE [type |-> "Simple", title |-> title.value, content |-> title.value]

build_card(title, content) ==
    IF ~Truthy(title) THEN None
    ELSE [type |-> "Simple", title |-> title.value, content |-> content]

\* a re-prompt object is built even without a text
build_reprompt_m(text) ==
    [outputSpeech |->
        build_output_speech(IF Truthy(text) THEN text.value ELSE "")]

build_reprompt(text) ==
    IF ~Truthy(text) THEN None
    ELSE [outputSpeech |-> build_output_speech(text.value)]

build_response(session_attributes, card_title, output, reprompt_text, should_end_session) ==
    [version |-> "1.0",
     sessionAttributes |-> session_attributes,
     response |->
        [card |-> build_card(card_title, output),
         outputSpeech |-> build_output_speech(output),
         reprompt |-> build_reprompt(reprompt_text),
         shouldEndSession |-> should_end_session]]

-----------------------------------------------------------------------------
(* The handlers *)

\* the welcome closes the session
get_welcome_response_m ==
    build_response(EmptyDict, None,
                   "How many cups of coffee are you making?",
                   None, TRUE)

get_welcome_response ==
    build_response(EmptyDict, None,
                   "How many cups of coffee are you making?",
                   None, FALSE)

\* the clarifying response without its re-prompt
bad_response_m ==
    build_response(EmptyDict, None,
                   "I'm not sure how many cups you're making.",
                   None, FALSE)

bad_response ==
    build_response(EmptyDict, None,
                   "I'm not sure how many cups you're making.",
                   Str("How many cups of coffee are you making?"), FALSE)

\* intent['slots']['Cups']['value']: a missing key at any level raises
\* KeyError
CupsValue(intent) ==
    IF "slots" \notin DOMAIN intent THEN Raise("KeyError")
    ELSE IF "Cups" \notin DOMAIN intent.slots THEN Raise("KeyError")
    ELSE IF "value" \notin DOMAIN intent.slots.Cups THEN Raise("KeyError")
    ELSE Return(intent.slots.Cups.value)

\* the response of get_scoops_for_cups once num_cups is known
scoops_response(num_cups) ==
    build_response(EmptyDict,
                   Str("Coffee scoops"),
                   "Use "
                     \o format_2g(num_cups * SCOOPS_PER_CUP[1],
                                  SCOOPS_PER_CUP[2])
                     \o " scoops for " \o str(num_cups) \o " cups.",
                   None,
                   TRUE)

\* a missing slot is filled in from the session attributes
get_scoops_for_cups_m(intent, session) ==
    LET looked == IF CupsValue(intent).status = "raised"
                     /\ "Cups" \in DOMAIN session.attributes
                  THEN Return(session.attributes.Cups)
                  ELSE CupsValue(intent)
    IN  IF looked.status = "raised"
        THEN Return(bad_response)
        ELSE LET parsed == int(looked.value)
             IN  IF parsed.status = "raised"
                 THEN parsed
                 ELSE Return(scoops_response(parsed.value))

get_scoops_for_cups(intent, session) ==
    LET looked == CupsValue(intent)
    IN  IF looked.status = "raised"
        THEN Return(bad_response)               \* except KeyError
        ELSE LET parsed == int(looked.value)
             IN  IF parsed.status = "raised"
                 THEN parsed                    \* ValueError is not caught
                 ELSE Return(scoops_response(parsed.value))

\* the launch prompt also carries a re-prompt
on_launch_m(request, session) ==
    Return(build_response(EmptyDict, None,
                          "How many cups of coffee are you making?",
                          Str("How many cups of coffee are you making?"),
                          FALSE))

on_launch(request, session) == Return(get_welcome_response)

\* an intent that is not known is answered with the welcome
on_intent_m(request, session) ==
    IF "intent" \notin DOMAIN request THEN Raise("KeyError")
    ELSE IF request.intent.name = "ScoopsForCupsIntent"
    THEN get_scoops_for_cups(request.intent, session)
    ELSE Return(get_welcome_response)

on_intent(request, session) ==
    IF "intent" \notin DOMAIN request THEN Raise("KeyError")
    ELSE LET intent == request.intent
             intent_name == request.intent.name
         IN  IF intent_name = "ScoopsForCupsIntent"
             THEN get_scoops_for_cups(intent, session)
             ELSE IF intent_name = "AMAZON.HelpIntent"
             THEN Return(get_welcome_response)
             ELSE Raise("ValueError")

\* the end of the session is answered like a launch
on_session_ended_m(request, session) == Return(get_welcome_response)

on_session_ended(request, session) == Return(None)

\* the result of lambda_handler(event, context): the dict of handlers is
\* indexed with the request type (KeyError for any other type)
lambda_handler(ev, context) ==
    LET type == ev.request.type
    IN  IF type = "LaunchRequest" THEN on_launch(ev.request, ev.session)
        ELSE IF type = "IntentRequest" THEN on_intent(ev.request, ev.session)
        ELSE IF type = "SessionEndedRequest"
        THEN on_session_ended(ev.request, ev.session)
        ELSE Raise("KeyError")

\* the records lambda_handler logs: the response is logged only when the
\* handler returned
Logged(result) ==
    <<"Received event: %s">>
        \o (IF result.status = "returned"
            THEN <<"Sending response: %s">> ELSE << >>)

-----------------------------------------------------------------------------
(* The events the platform can send *)

Alphabet == {"0", "1", "-", " ", "a"}

RECURSIVE StringsUpTo(_)
StringsUpTo(n) ==
    IF n = 0 THEN {""}
    ELSE LET prev == StringsUpTo(n - 1)
         IN  prev \cup {s \o c : s \in prev, c \in Alphabet}

Sessions ==
    {[new |-> TRUE, attributes |-> EmptyDict],
     [new |-> FALSE, attributes |-> [Cups |-> "1"]]}

RequestTypes ==
    {"LaunchRequest", "IntentRequest", "SessionEndedRequest",
     "System.ExceptionEncountered"}

OtherIntentNames == {"AMAZON.HelpIntent", "AMAZON.StopIntent"}

\* the intents named nm: without slots, without a Cups slot, with a Cups
\* slot that has no value, with a Cups slot whose value is in values
IntentsNamed(nm, values) ==
    {[name |-> nm]}
      \cup {[name |-> nm, slots |-> EmptyDict],
            [name |-> nm, slots |-> [Cups |-> [name |-> "Cups"]]]}
      \cup {[name |-> nm, slots |-> [Cups |-> [name |-> "Cups", value |-> v]]] :
               v \in values}

Intents(values) ==
    IntentsNamed("ScoopsForCupsIntent", values)
      \cup UNION {IntentsNamed(nm, {"1", "a"}) : nm \in OtherIntentNames}

Requests(values) ==
    {[type |-> t] : t \in RequestTypes}
      \cup {[type |-> "IntentRequest", intent |-> i] : i \in Intents(values)}
      \cup {[type |-> t, intent |-> i] :
               t \in RequestTypes \ {"IntentRequest"}, i \in Intents({})}

Events(values) ==
    {[request |-> r, session |-> s] : r \in Requests(values), s \in Sessions}

SpecEvents == Events(StringsUpTo(MaxLen))

HistEvents == Events(StringsUpTo(HistLen))

CupCounts == (0 - MaxCups)..MaxCups

CupsEvents ==
    {[request |-> [type |-> "IntentRequest",
                   intent |-> [name |-> "ScoopsForCupsIntent",
                               slots |-> [Cups |-> [name |-> "Cups",
                                                    value |-> str(n)]]]],
      session |-> s] : n \in CupCounts, s \in Sessions}

-----------------------------------------------------------------------------
(* The state machine: one step is one invocation of lambda_handler *)

Init ==
    /\ event = None
    /\ outcome = None
    /\ log = <<"Loading function.">>
    /\ memo = None

Invoke(ev) ==
    LET result == lambda_handler(ev, None)
    IN  /\ event' = ev
        /\ outcome' = result
        /\ log' = Logged(result)

Next == \E ev \in SpecEvents : Invoke(ev) /\ UNCHANGED memo

Spec == Init /\ [][Next]_vars

NextCups == \E ev \in CupsEvents : Invoke(ev) /\ UNCHANGED memo

SpecCups == Init /\ [][NextCups]_vars

\* memo remembers one earlier invocation, chosen arbitrarily
NextHist ==
    \E ev \in HistEvents, keep \in BOOLEAN :
        /\ Invoke(ev)
        /\ memo' = IF keep \/ event = None
                   THEN memo
                   ELSE [event |-> event, outcome |-> outcome]

SpecHist == Init /\ [][NextHist]_vars

-----------------------------------------------------------------------------
(* Vocabulary of the properties *)

Invoked == event # None

Returned == outcome.status = "returned"

IsIntentRequest ==
    /\ Invoked
    /\ event.request.type = "IntentRequest"
    /\ "intent" \in DOMAIN event.request

IsScoops == IsIntentRequest /\ event.request.intent.name = "ScoopsForCupsIntent"

IsHelp == IsIntentRequest /\ event.request.intent.name = "AMAZON.HelpIntent"

HasSlots == "slots" \in DOMAIN event.request.intent

HasCupsValue ==
    /\ HasSlots
    /\ "Cups" \in DOMAIN event.request.intent.slots
    /\ "value" \in DOMAIN event.request.intent.slots.Cups

Cups == event.request.intent.slots.Cups.value

Body == outcome.value.response

ClarifyText == "I'm not sure how many cups you're making."

PromptText == "How many cups of coffee are you making?"

PlainText(t) == [type |-> "PlainText", text |-> t]

\* the clarifying response of the missing-slot case
IsClarifying(r) ==
    /\ r.response.outputSpeech = PlainText(ClarifyText)
    /\ r.response.reprompt # None
    /\ r.response.reprompt.outputSpeech = PlainText(PromptText)
    /\ r.response.card = None
    /\ r.response.shouldEndSession = FALSE

\* text is "Use <something> scoops for <n> cups."
HasScoopsForm(text, n) ==
    LET suffix == " scoops for " \o str(n) \o " cups."
    IN  /\ Len(text) > 4 + Len(suffix)
        /\ SubSeq(text, 1, 4) = "Use "
        /\ SubSeq(text, Len(text) - Len(suffix) + 1, Len(text)) = suffix

\* the <something> of such a text
ScoopsField(text, n) ==
    SubSeq(text, 5, Len(text) - Len(" scoops for " \o str(n) \o " cups."))

\* position of the first character c of s, 0 when there is none
FirstPos(s, c) ==
    IF \E i \in 1..Len(s) : Char(s, i) = c
    THEN CHOOSE i \in 1..Len(s) :
            Char(s, i) = c /\ \A j \in 1..(i - 1) : Char(s, j) # c
    ELSE 0

AllDigits(s) == Len(s) > 0 /\ \A i \in 1..Len(s) : Char(s, i) \in Digits

\* a decimal numeral [-]d+[.d+][e(+|-)d+] read as neg, mant and scale, the
\* number being (-)mant * 10^scale; ok tells whether it is such a numeral
Numeral(f) ==
    LET neg == Len(f) > 0 /\ Char(f, 1) = "-"
        body == IF neg THEN SubSeq(f, 2, Len(f)) ELSE f
        epos == FirstPos(body, "e")
        mpart == IF epos = 0 THEN body ELSE SubSeq(body, 1, epos - 1)
        esign == IF epos = 0 THEN "+" ELSE Char(body, epos + 1)
        edigs == IF epos = 0 THEN "0" ELSE SubSeq(body, epos + 2, Len(body))
        ppos == FirstPos(mpart, ".")
        ipart == IF ppos = 0 THEN mpart ELSE SubSeq(mpart, 1, ppos - 1)
        fpart == IF ppos = 0 THEN "" ELSE SubSeq(mpart, ppos + 1, Len(mpart))
        ok == /\ AllDigits(ipart)
              /\ ppos # 0 => AllDigits(fpart)
              /\ esign \in {"+", "-"}
              /\ AllDigits(edigs)
    IN  IF ~ok THEN [ok |-> FALSE]
        ELSE [ok |-> TRUE,
              neg |-> neg,
              mant |-> DigitsValue(ipart \o fpart),
              scale |-> (IF esign = "-" THEN 0 - DigitsValue(edigs)
                         ELSE DigitsValue(edigs)) - Len(fpart)]

\* the numeral f denotes 5n/6 at two significant figures: with 10^e the
\* decade of |5n/6|, the number is a multiple of 10^(e-1), at most half of
\* 10^(e-1) away from 5n/6, and has the sign of n
IsTwoSigFigs(f, n) ==
    LET Shift == 3   \* every power of ten is taken times 10^Shift
        num == Numeral(f)
        a == 5 * (IF n < 0 THEN 0 - n ELSE n)
        e == CHOOSE k \in (0 - Shift)..6 :
                /\ 6 * Pow10(k + Shift) <= a * Pow10(Shift)
                /\ a * Pow10(Shift) < 6 * Pow10(k + 1 + Shift)
        unit == Pow10(e - 1 + Shift)
        value == num.mant * Pow10(num.scale + Shift)
        diff == 6 * value - a * Pow10(Shift)
    IN  /\ num.ok
        /\ IF n = 0 THEN num.mant = 0
           ELSE /\ num.neg = (n < 0)
                /\ num.scale + Shift >= 0
                /\ e - 1 + Shift >= 0
                /\ value % unit = 0
                /\ 2 * (IF diff < 0 THEN 0 - diff ELSE diff) <= 6 * unit

-----------------------------------------------------------------------------
(* The properties *)

\* C1: a ScoopsForCupsIntent whose Cups value does not parse as an integer
\* does not fail the invocation and gets the clarifying response of the
\* missing-slot case.
C1_UnparsableIsClarified ==
    (IsScoops /\ HasCupsValue /\ int(Cups).status = "raised")
        => (Returned /\ outcome.value # None /\ IsClarifying(outcome.value))

\* C2: a ScoopsForCupsIntent whose slots have no Cups slot, or whose Cups
\* slot has no value, gets the clarifying text, the re-prompt "How many
\* cups of coffee are you making?", no card and an open session.
C2_MissingSlotIsClarified ==
    (IsScoops /\ HasSlots /\ ~HasCupsValue)
        => (Returned /\ outcome.value # None /\ IsClarifying(outcome.value))

C2_Witness ==
    /\ IsScoops /\ HasSlots /\ ~HasCupsValue
    /\ "Cups" \in DOMAIN event.request.intent.slots
    /\ Returned

\* C3: a ScoopsForCupsIntent whose Cups value parses as an integer n, zero
\* and negative n included, gets "Use ... scoops for n cups.", a Simple
\* card titled "Coffee scoops" with that same text, no re-prompt and a
\* closed session.
C3_ParsedCupsAreAnswered ==
    (IsScoops /\ HasCupsValue /\ int(Cups).status = "returned")
        => /\ Returned
           /\ outcome.value # None
           /\ HasScoopsForm(Body.outputSpeech.text, int(Cups).value)
           /\ Body.outputSpeech.type = "PlainText"
           /\ Body.card = [type |-> "Simple", title |-> "Coffee scoops",
                           content |-> Body.outputSpeech.text]
           /\ Body.reprompt = None
           /\ Body.shouldEndSession = TRUE

C3_Witness ==
    /\ IsScoops /\ HasCupsValue /\ int(Cups).status = "returned"
    /\ int(Cups).value < 0
    /\ Returned

\* C4: for every integer cup count n the scoops number of the text is 5n/6
\* at two significant figures; 1 cup gives 0.83, 6 cups give 5 and 10 cups
\* give 8.3.
C4_TwoSignificantFigures ==
    (IsScoops /\ HasCupsValue /\ int(Cups).status = "returned")
        => LET n == int(Cups).value
               text == Body.outputSpeech.text
           IN  /\ Returned
               /\ HasScoopsForm(text, n)
               /\ IsTwoSigFigs(ScoopsField(text, n), n)
               /\ n = 1 => text = "Use 0.83 scoops for 1 cups."
               /\ n = 6 => text = "Use 5 scoops for 6 cups."
               /\ n = 10 => text = "Use 8.3 scoops for 10 cups."

C4_Witness ==
    /\ IsScoops /\ HasCupsValue /\ int(Cups).status = "returned"
    /\ int(Cups).value = 125
    /\ Returned

\* C5: every returned Response has version "1.0", empty sessionAttributes
\* and a body with exactly the keys card, outputSpeech, reprompt and
\* shouldEndSession; shouldEndSession is a boolean, the card is null
\* exactly when no title was supplied and else a Simple card, the re-prompt
\* is null exactly when no re-prompt text was supplied and else wraps a
\* PlainText outputSpeech.  A title is supplied on the path of the parsed
\* cup count, a re-prompt text on the path of the missing slot.
C5_ResponseShape ==
    (Invoked /\ Returned /\ outcome.value # None)
        => LET titled == IsScoops /\ HasCupsValue
               reprompted == IsScoops /\ ~HasCupsValue
           IN  /\ DOMAIN outcome.value = {"version", "sessionAttributes", "response"}
               /\ outcome.value.version = "1.0"
               /\ outcome.value.sessionAttributes = EmptyDict
               /\ DOMAIN Body = {"card", "outputSpeech", "reprompt", "shouldEndSession"}
               /\ Body.shouldEndSession \in BOOLEAN
               /\ (Body.card = None) <=> ~titled
               /\ titled => /\ DOMAIN Body.card = {"type", "title", "content"}
                            /\ Body.card.type = "Simple"
                            /\ Body.card.title = "Coffee scoops"
                            /\ Body.card.content = Body.outputSpeech.text
               /\ (Body.reprompt = None) <=> ~reprompted
               /\ reprompted => /\ DOMAIN Body.reprompt = {"outputSpeech"}
                                /\ Body.reprompt.outputSpeech = PlainText(PromptText)

C5_Witness ==
    /\ Invoked /\ Returned /\ outcome.value # None
    /\ Body.card # None
    /\ Body.reprompt = None

\* C6: the invocation fails, and returns nothing, when the request type is
\* none of LaunchRequest, IntentRequest and SessionEndedRequest and when
\* the intent of an IntentRequest is neither ScoopsForCupsIntent nor
\* AMAZON.HelpIntent.
C6_UnknownRequestsFail ==
    (/\ Invoked
     /\ \/ event.request.type \notin {"LaunchRequest", "IntentRequest", "SessionEndedRequest"}
        \/ IsIntentRequest /\ ~IsScoops /\ ~IsHelp)
        => /\ outcome.status = "raised"
           /\ "value" \notin DOMAIN outcome

C6_Witness ==
    /\ IsIntentRequest /\ ~IsScoops /\ ~IsHelp
    /\ HasSlots
    /\ outcome.status = "raised"

\* C7: every LaunchRequest gets the text "How many cups of coffee are you
\* making?" with no card, no re-prompt and an open session.
C7_LaunchIsWelcomed ==
    (Invoked /\ event.request.type = "LaunchRequest")
        => /\ Returned
           /\ outcome.value # None
           /\ Body.outputSpeech = PlainText(PromptText)
           /\ Body.card = None
           /\ Body.reprompt = None
           /\ Body.shouldEndSession = FALSE

C7_Witness ==
    /\ Invoked /\ event.request.type = "LaunchRequest"
    /\ "intent" \in DOMAIN event.request
    /\ event.session.attributes # EmptyDict
    /\ Returned

\* C8: an AMAZON.HelpIntent gets the same Response, field for field, as a
\* bare LaunchRequest, whatever slots it carries.
C8_HelpEqualsLaunch ==
    (/\ IsHelp
     /\ memo # None
     /\ memo.event.request = [type |-> "LaunchRequest"])
        => /\ Returned
           /\ memo.outcome.status = "returned"
           /\ outcome.value = memo.outcome.value

C8_Witness ==
    /\ IsHelp /\ HasCupsValue
    /\ memo # None
    /\ memo.event.request = [type |-> "LaunchRequest"]
    /\ Returned

\* C9: a SessionEndedRequest returns None without failing; a LaunchRequest
\* or IntentRequest that does not fail returns a full Response, never None.
C9_OnlySessionEndedReturnsNone ==
    /\ (Invoked /\ event.request.type = "SessionEndedRequest")
          => outcome = Return(None)
    /\ (Invoked /\ event.request.type \in {"LaunchRequest", "IntentRequest"} /\ Returned)
          => /\ outcome.value # None
             /\ DOMAIN outcome.value = {"version", "sessionAttributes", "response"}
             /\ DOMAIN Body = {"card", "outputSpeech", "reprompt", "shouldEndSession"}

C9_Witness ==
    /\ Invoked /\ event.request.type = "SessionEndedRequest"
    /\ outcome = Return(None)

\* C10: the outcome of an invocation is a function of its request alone:
\* any earlier invocation with the same request, whatever its session and
\* whatever happened in between, had the same outcome.
C10_OutcomeDependsOnRequestOnly ==
    (Invoked /\ memo # None /\ memo.event.request = event.request)
        => memo.outcome = outcome

C10_Witness ==
    /\ Invoked /\ memo # None
    /\ memo.event.request = event.request
    /\ memo.event.session # event.session
    /\ IsScoops /\ HasSlots /\ ~HasCupsValue
    /\ memo.outcome = outcome

====
